---- MODULE Spec2Model ----
(***************************************************************************)
(* ConfigManager of mcpm (src/src/mcpm/utils/config.py): one JSON file     *)
(* holding the active client, the registered servers and the servers       *)
(* enabled for each client, loaded on construction and rewritten whole by  *)
(* every mutating operation.                                               *)
(*                                                                         *)
(* A Python dict is a function, a Python list a sequence.  The JSON text   *)
(* of the file is modelled by its parse tree: an object is a set of        *)
(* <<key, value>> pairs, an array a sequence.                              *)
(***************************************************************************)
EXTENDS Integers, Sequences, FiniteSets, TLC

\* Number of calls explored on one ConfigManager, and in total when two
\* ConfigManagers share the file.
MaxCalls == 5
MaxRaceCalls == 2

\* The clients of the default document, and the names callers may pass.
DefaultClients == {"claude-desktop", "cursor", "windsurf"}
ClientNames == DefaultClients \cup {"vscode"}
ServerNames == {"x", "y"}
ServerInfos == {[command |-> "npx"], [command |-> "uvx"]}

\* Results of environment detection (mcpm.utils.client_detector).
InstalledProbes ==
    { [c \in DefaultClients |-> FALSE],
      [c \in DefaultClients |-> c = "cursor"] }
RecommendedClients == DefaultClients

VARIABLES
    config,   \* config[m]: self._config of ConfigManager m
    file,     \* the file at config_path
    call,     \* call[m]: the most recent call on ConfigManager m and its outcome
    last,     \* the ConfigManager the most recent call was made on
    writer,   \* the ConfigManager whose _save_config ran most recently, 0 if none
    calls,    \* number of calls made since the managers were constructed
    env       \* what environment detection reports on this machine

vars == <<config, file, call, last, writer, calls, env>>

----------------------------------------------------------------------------
\* Python values

EmptyDict == [k \in {} |-> ""]
EmptyList == <<>>
None == [none |-> TRUE]

In(l, x) == \E i \in 1..Len(l) : l[i] = x

\* list.append(x)
ListAppend(l, x) == Append(l, x)

\* list.remove(x): removes the first occurrence
ListRemove(l, x) ==
    LET i == CHOOSE j \in 1..Len(l) : l[j] = x /\ \A k \in 1..(j - 1) : l[k] # x
    IN  SubSeq(l, 1, i - 1) \o SubSeq(l, i + 1, Len(l))

\* d[k] = v
DictSet(d, k, v) == [j \in DOMAIN d \cup {k} |-> IF j = k THEN v ELSE d[j]]

\* del d[k]
DictDel(d, k) == [j \in DOMAIN d \ {k} |-> d[j]]

----------------------------------------------------------------------------
\* JSON

\* d maps each key to its value's JSON; o is a JSON object
JsonObject(d) == {<<k, d[k]>> : k \in DOMAIN d}
JsonKeys(o) == {kv[1] : kv \in o}
JsonGet(o, k) == (CHOOSE kv \in o : kv[1] = k)[2]
PyDict(o) == [k \in JsonKeys(o) |-> JsonGet(o, k)]

DumpInfo(info) == JsonObject(info)
LoadInfo(o) == PyDict(o)

DumpClient(entry) ==
    { <<"enabled_servers", entry.enabled_servers>>,
      <<"disabled_servers", JsonObject(entry.disabled_servers)>>,
      <<"installed", entry.installed>> }
LoadClient(o) ==
    [ enabled_servers |-> JsonGet(o, "enabled_servers"),
      disabled_servers |-> PyDict(JsonGet(o, "disabled_servers")),
      installed |-> JsonGet(o, "installed") ]

\* json.dump(self._config, f, indent=2)
json_dump(cfg) ==
    { <<"version", cfg.version>>,
      <<"servers_dir", cfg.servers_dir>>,
      <<"active_client", cfg.active_client>>,
      <<"servers", JsonObject([k \in DOMAIN cfg.servers |->
                                  DumpInfo(cfg.servers[k])])>>,
      <<"clients", JsonObject([c \in DOMAIN cfg.clients |->
                                  DumpClient(cfg.clients[c])])>> }

\* json.load(f)
json_load(o) ==
    [ version |-> JsonGet(o, "version"),
      servers_dir |-> JsonGet(o, "servers_dir"),
      active_client |-> JsonGet(o, "active_client"),
      servers |-> [k \in JsonKeys(JsonGet(o, "servers")) |->
                     LoadInfo(JsonGet(JsonGet(o, "servers"), k))],
      clients |-> [c \in JsonKeys(JsonGet(o, "clients")) |->
                     LoadClient(JsonGet(JsonGet(o, "clients"), c))] ]

\* The file: absent, text that is not JSON, or JSON text.
AbsentFile == [kind |-> "absent", text |-> <<>>]
InvalidFile == [kind |-> "invalid", text |-> <<>>]
JsonFile(o) == [kind |-> "json", text |-> <<o>>]

----------------------------------------------------------------------------
\* Effects of a call, in the order the code produces them

Saved == [e |-> "_save_config", client |-> "", server |-> ""]
RemoveServer(client_name, server_name) ==
    [e |-> "remove_server", client |-> client_name, server |-> server_name]

----------------------------------------------------------------------------
\* ConfigManager

servers_dir == "~/.config/mcp/servers"

_default_config(installed_clients, recommended_client) ==
    [ version |-> "0.1.0",
      servers_dir |-> servers_dir,
      active_client |-> recommended_client,
      servers |-> EmptyDict,
      clients |-> [c \in DefaultClients |->
                     [ enabled_servers |-> EmptyList,
                       disabled_servers |-> EmptyDict,
                       installed |-> installed_clients[c] ]] ]

\* Variant of _save_config: re-reads the file and keeps the servers other
\* writers enabled.
_save_config_merging(cfg, f) ==
    IF f.kind = "json"
    THEN LET disk == json_load(f.text[1])
             Kept(c) == SelectSeq(disk.clients[c].enabled_servers,
                                  LAMBDA s : ~In(cfg.clients[c].enabled_servers, s))
         IN  JsonFile(json_dump([cfg EXCEPT !.clients =
                 [c \in DOMAIN cfg.clients |->
                     [cfg.clients[c] EXCEPT !.enabled_servers = @ \o Kept(c)]]]))
    ELSE JsonFile(json_dump(cfg))

\* open(config_path, 'w') discards what the file held; f is that old content.
_save_config(cfg, f) == JsonFile(json_dump(cfg))

\* Variant of _load_config: the default document of a first run is not saved.
_load_config_unsaved(f, installed_clients, recommended_client) ==
    IF f.kind = "json"
    THEN [config |-> json_load(f.text[1]), file |-> f, ret |-> "None",
          effects |-> <<>>]
    ELSE [config |-> _default_config(installed_clients, recommended_client),
          file |-> f, ret |-> "None", effects |-> <<>>]

\* Variant of _load_config: json.JSONDecodeError is not caught.
_load_config_uncaught(f, installed_clients, recommended_client) ==
    IF f.kind = "json"
    THEN [config |-> json_load(f.text[1]), file |-> f, ret |-> "None",
          effects |-> <<>>]
    ELSE IF f.kind = "invalid"
    THEN [config |-> None, file |-> f, ret |-> "JSONDecodeError", effects |-> <<>>]
    ELSE LET d == _default_config(installed_clients, recommended_client)
         IN  [config |-> d, file |-> _save_config(d, f), ret |-> "None",
              effects |-> <<Saved>>]

_load_config(f, installed_clients, recommended_client) ==
    IF f.kind # "absent"
    THEN IF f.kind = "json"
         THEN [config |-> json_load(f.text[1]), file |-> f, ret |-> "None",
               effects |-> <<>>]
         ELSE \* except json.JSONDecodeError: logged, not raised
              [config |-> _default_config(installed_clients, recommended_client),
               file |-> f, ret |-> "None", effects |-> <<>>]
    ELSE LET d == _default_config(installed_clients, recommended_client)
         IN  [config |-> d, file |-> _save_config(d, f), ret |-> "None",
              effects |-> <<Saved>>]

\* The client manager classes the late imports of _get_client_manager find
\* (mcpm.clients.claude_desktop, mcpm.clients.windsurf, mcpm.clients.cursor).
ImportableManagers == {"ClaudeDesktopManager", "WindsurfManager", "CursorManager"}

\* The manager for a client, "None" for an unsupported client, "ImportError"
\* when the import raises.
_get_client_manager(client_name) ==
    LET manager == IF client_name = "claude-desktop" THEN "ClaudeDesktopManager"
                   ELSE IF client_name = "windsurf" THEN "WindsurfManager"
                   ELSE IF client_name = "cursor" THEN "CursorManager"
                   ELSE "None"
    IN  IF manager = "None" \/ manager \in ImportableManagers
        THEN manager
        ELSE "ImportError"

register_server(cfg, f, server_name, server_info) ==
    LET new == [cfg EXCEPT !.servers = DictSet(@, server_name, server_info)]
    IN  [config |-> new, file |-> _save_config(new, f), ret |-> "None",
         effects |-> <<Saved>>]

\* Variant of unregister_server: the clients' enabled_servers are not cleaned.
unregister_server_servers_only(cfg, f, server_name) ==
    IF server_name \in DOMAIN cfg.servers
    THEN LET new == [cfg EXCEPT !.servers = DictDel(@, server_name)]
         IN  [config |-> new, file |-> _save_config(new, f), ret |-> "None",
              effects |-> <<Saved>>]
    ELSE [config |-> cfg, file |-> f, ret |-> "None", effects |-> <<>>]

unregister_server(cfg, f, server_name) ==
    IF server_name \in DOMAIN cfg.servers
    THEN LET new == [cfg EXCEPT
                 !.servers = DictDel(@, server_name),
                 !.clients = [c \in DOMAIN cfg.clients |->
                     IF In(cfg.clients[c].enabled_servers, server_name)
                     THEN [cfg.clients[c] EXCEPT
                             !.enabled_servers = ListRemove(@, server_name)]
                     ELSE cfg.clients[c]]]
         IN  [config |-> new, file |-> _save_config(new, f), ret |-> "None",
              effects |-> <<Saved>>]
    ELSE [config |-> cfg, file |-> f, ret |-> "None", effects |-> <<>>]

\* Variant of enable_server_for_client: appends without looking for the name.
enable_server_for_client_appending(cfg, f, server_name, client_name) ==
    IF client_name \notin DOMAIN cfg.clients
    THEN [config |-> cfg, file |-> f, ret |-> "False", effects |-> <<>>]
    ELSE LET new == [cfg EXCEPT !.clients[client_name].enabled_servers =
                         ListAppend(@, server_name)]
         IN  [config |-> new, file |-> _save_config(new, f), ret |-> "True",
              effects |-> <<Saved>>]

\* Variant of enable_server_for_client: returns whether the list changed.
enable_server_for_client_changed(cfg, f, server_name, client_name) ==
    IF client_name \notin DOMAIN cfg.clients
    THEN [config |-> cfg, file |-> f, ret |-> "False", effects |-> <<>>]
    ELSE IF ~In(cfg.clients[client_name].enabled_servers, server_name)
         THEN LET new == [cfg EXCEPT !.clients[client_name].enabled_servers =
                              ListAppend(@, server_name)]
              IN  [config |-> new, file |-> _save_config(new, f), ret |-> "True",
                   effects |-> <<Saved>>]
         ELSE [config |-> cfg, file |-> f, ret |-> "False", effects |-> <<>>]

\* Variant of enable_server_for_client: an unknown client gets an entry.
enable_server_for_client_creating(cfg, f, server_name, client_name) ==
    LET entry == IF client_name \in DOMAIN cfg.clients
                 THEN cfg.clients[client_name]
                 ELSE [enabled_servers |-> EmptyList,
                       disabled_servers |-> EmptyDict, installed |-> FALSE]
    IN  IF ~In(entry.enabled_servers, server_name)
        THEN LET new == [cfg EXCEPT !.clients = DictSet(@, client_name,
                             [entry EXCEPT !.enabled_servers =
                                 ListAppend(@, server_name)])]
             IN  [config |-> new, file |-> _save_config(new, f), ret |-> "True",
                  effects |-> <<Saved>>]
        ELSE [config |-> cfg, file |-> f, ret |-> "True", effects |-> <<>>]

enable_server_for_client(cfg, f, server_name, client_name) ==
    IF client_name \notin DOMAIN cfg.clients
    THEN [config |-> cfg, file |-> f, ret |-> "False", effects |-> <<>>]
    ELSE IF ~In(cfg.clients[client_name].enabled_servers, server_name)
         THEN LET new == [cfg EXCEPT !.clients[client_name].enabled_servers =
                              ListAppend(@, server_name)]
              IN  [config |-> new, file |-> _save_config(new, f), ret |-> "True",
                   effects |-> <<Saved>>]
         ELSE [config |-> cfg, file |-> f, ret |-> "True", effects |-> <<>>]

\* Variant of disable_server_for_client: saves and calls the client manager
\* whether or not the server was enabled.
disable_server_for_client_always(cfg, f, server_name, client_name) ==
    IF client_name \notin DOMAIN cfg.clients
    THEN [config |-> cfg, file |-> f, ret |-> "False", effects |-> <<>>]
    ELSE LET new == IF In(cfg.clients[client_name].enabled_servers, server_name)
                    THEN [cfg EXCEPT !.clients[client_name].enabled_servers =
                              ListRemove(@, server_name)]
                    ELSE cfg
         IN  [config |-> new, file |-> _save_config(new, f), ret |-> "True",
              effects |-> <<Saved, RemoveServer(client_name, server_name)>>]

\* Variant of disable_server_for_client: calls the client manager before
\* saving.
disable_server_for_client_manager_first(cfg, f, server_name, client_name) ==
    IF client_name \notin DOMAIN cfg.clients
    THEN [config |-> cfg, file |-> f, ret |-> "False", effects |-> <<>>]
    ELSE IF In(cfg.clients[client_name].enabled_servers, server_name)
         THEN LET new == [cfg EXCEPT !.clients[client_name].enabled_servers =
                              ListRemove(@, server_name)]
              IN  [config |-> new, file |-> _save_config(new, f), ret |-> "True",
                   effects |-> <<RemoveServer(client_name, server_name), Saved>>]
         ELSE [config |-> cfg, file |-> f, ret |-> "False", effects |-> <<>>]

disable_server_for_client(cfg, f, server_name, client_name) ==
    IF client_name \notin DOMAIN cfg.clients
    THEN [config |-> cfg, file |-> f, ret |-> "False", effects |-> <<>>]
    ELSE IF In(cfg.clients[client_name].enabled_servers, server_name)
         THEN LET new == [cfg EXCEPT !.clients[client_name].enabled_servers =
                              ListRemove(@, server_name)]
                  client_manager == _get_client_manager(client_name)
              IN  [config |-> new, file |-> _save_config(new, f),
                   ret |-> IF client_manager = "ImportError"
                           THEN "ImportError" ELSE "True",
                   effects |->
                     IF client_manager \notin {"None", "ImportError"}
                     THEN <<Saved, RemoveServer(client_name, server_name)>>
                     ELSE <<Saved>>]
         ELSE [config |-> cfg, file |-> f, ret |-> "False", effects |-> <<>>]

\* Variant of set_active_client: the name is not looked up in clients.
set_active_client_unchecked(cfg, f, client_name) ==
    LET new == [cfg EXCEPT !.active_client = client_name]
    IN  [config |-> new, file |-> _save_config(new, f), ret |-> "True",
         effects |-> <<Saved>>]

set_active_client(cfg, f, client_name) ==
    IF client_name \notin DOMAIN cfg.clients
    THEN [config |-> cfg, file |-> f, ret |-> "False", effects |-> <<>>]
    ELSE LET new == [cfg EXCEPT !.active_client = client_name]
         IN  [config |-> new, file |-> _save_config(new, f), ret |-> "True",
              effects |-> <<Saved>>]

----------------------------------------------------------------------------
\* Calls

CallLimit == IF Cardinality(DOMAIN config) = 1 THEN MaxCalls ELSE MaxRaceCalls

Outcome(m, op, server_name, client_name, r) ==
    [ op |-> op, server_name |-> server_name, client_name |-> client_name,
      ret |-> r.ret, effects |-> r.effects,
      pre |-> config[m], pre_file |-> file ]

Call(m, op, server_name, client_name, r) ==
    /\ calls < CallLimit
    /\ config' = [config EXCEPT ![m] = r.config]
    /\ file' = r.file
    /\ call' = [call EXCEPT ![m] = Outcome(m, op, server_name, client_name, r)]
    /\ last' = m
    /\ writer' = IF In(r.effects, Saved) THEN m ELSE writer
    /\ calls' = calls + 1
    /\ UNCHANGED env

\* ConfigManager(config_path): a new manager object replaces manager m
Construct(m) ==
    LET r == _load_config(file, env.installed, env.recommended)
    IN  Call(m, "__init__", "", "", r)

RegisterServer(m) ==
    \E s \in ServerNames, info \in ServerInfos :
        Call(m, "register_server", s, "", register_server(config[m], file, s, info))

UnregisterServer(m) ==
    \E s \in ServerNames :
        Call(m, "unregister_server", s, "", unregister_server(config[m], file, s))

EnableServerForClient(m) ==
    \E s \in ServerNames, c \in ClientNames :
        Call(m, "enable_server_for_client", s, c,
             enable_server_for_client(config[m], file, s, c))

DisableServerForClient(m) ==
    \E s \in ServerNames, c \in ClientNames :
        Call(m, "disable_server_for_client", s, c,
             disable_server_for_client(config[m], file, s, c))

SetActiveClient(m) ==
    \E c \in ClientNames :
        Call(m, "set_active_client", "", c, set_active_client(config[m], file, c))

Next ==
    \/ \E m \in DOMAIN config : Construct(m)
    \/ \E m \in DOMAIN config : RegisterServer(m)
    \/ \E m \in DOMAIN config : UnregisterServer(m)
    \/ \E m \in DOMAIN config : EnableServerForClient(m)
    \/ \E m \in DOMAIN config : DisableServerForClient(m)
    \/ \E m \in DOMAIN config : SetActiveClient(m)

\* The first ConfigManager constructed on a machine whose config file is
\* absent or holds text that is not JSON.
Constructed(f0, installed, recommended) ==
    LET r == _load_config(f0, installed, recommended)
    IN  [ config |-> r.config, file |-> r.file,
          call |-> [ op |-> "__init__", server_name |-> "", client_name |-> "",
                     ret |-> r.ret, effects |-> r.effects,
                     pre |-> None, pre_file |-> f0 ] ]

Init ==
    \E f0 \in {AbsentFile, InvalidFile}, installed \in InstalledProbes,
       recommended \in RecommendedClients :
        LET a == Constructed(f0, installed, recommended)
        IN  /\ env = [installed |-> installed, recommended |-> recommended]
            /\ config = [m \in {1} |-> a.config]
            /\ file = a.file
            /\ call = [m \in {1} |-> a.call]
            /\ last = 1
            /\ writer = IF In(a.call.effects, Saved) THEN 1 ELSE 0
            /\ calls = 0

Spec == Init /\ [][Next]_vars

\* Two ConfigManagers (two CLI processes) constructed one after the other on
\* the same file.  Their calls interleave; each call, its _save_config
\* included, is one step.
InitRace ==
    \E f0 \in {AbsentFile, InvalidFile}, installed \in InstalledProbes,
       recommended \in RecommendedClients :
        LET a == Constructed(f0, installed, recommended)
            b == Constructed(a.file, installed, recommended)
        IN  /\ env = [installed |-> installed, recommended |-> recommended]
            /\ config = [m \in {1, 2} |-> IF m = 1 THEN a.config ELSE b.config]
            /\ file = b.file
            /\ call = [m \in {1, 2} |-> IF m = 1 THEN a.call ELSE b.call]
            /\ last = 2
            /\ writer = IF In(a.call.effects, Saved) THEN 1 ELSE 0
            /\ calls = 0

SpecRace == InitRace /\ [][Next]_vars

----------------------------------------------------------------------------
\* Properties

Managers == DOMAIN config
EnabledServers(cfg, c) == cfg.clients[c].enabled_servers
FileHolds(cfg) == file.kind = "json" /\ json_load(file.text[1]) = cfg
Unknown(k) == k.client_name \notin DOMAIN k.pre.clients

\* C1: enable_server_for_client is idempotent: a second call with the same
\* server and client, made right after the first on a known client, leaves
\* the document and the file as the first call left them, and both calls
\* return True.
C1_EnableIdempotent ==
    [][\A m \in Managers :
        ( /\ last = m /\ last' = m
          /\ call[m].op = "enable_server_for_client"
          /\ call'[m].op = "enable_server_for_client"
          /\ call'[m].server_name = call[m].server_name
          /\ call'[m].client_name = call[m].client_name
          /\ ~Unknown(call[m]) )
        => /\ call[m].ret = "True"
           /\ call'[m].ret = "True"
           /\ config'[m] = config[m]
           /\ file' = file]_vars

\* C1 witness: the second of two identical enable calls on a fresh document.
C1_Witness ==
    /\ calls = 2
    /\ call[1].op = "enable_server_for_client"
    /\ call[1].client_name = "cursor"
    /\ call[1].ret = "True"
    /\ call[1].effects = <<>>
    /\ EnabledServers(config[1], "cursor") = <<call[1].server_name>>

\* C2 as claimed: after unregister_server(name) returns, name is in neither
\* servers nor any client's enabled_servers.
C2_UnregisterRemovesEverywhere ==
    \A m \in Managers :
        call[m].op = "unregister_server"
        => /\ call[m].server_name \notin DOMAIN config[m].servers
           /\ \A c \in DOMAIN config[m].clients :
                ~In(EnabledServers(config[m], c), call[m].server_name)

\* C2 amended: after unregister_server(name) returns, name is not in servers;
\* if name was registered when the call was made it is in no client's
\* enabled_servers either, and if it was not registered nothing changed.
C2_UnregisterRegisteredRemovesEverywhere ==
    \A m \in Managers :
        call[m].op = "unregister_server"
        => /\ call[m].server_name \notin DOMAIN config[m].servers
           /\ call[m].server_name \in DOMAIN call[m].pre.servers
                => \A c \in DOMAIN config[m].clients :
                     ~In(EnabledServers(config[m], c), call[m].server_name)
           /\ call[m].server_name \notin DOMAIN call[m].pre.servers
                => config[m] = call[m].pre /\ call[m].effects = <<>>

\* C2 witness: a registered server enabled for cursor has been unregistered.
C2_Witness ==
    /\ call[1].op = "unregister_server"
    /\ call[1].server_name \in DOMAIN call[1].pre.servers
    /\ In(EnabledServers(call[1].pre, "cursor"), call[1].server_name)
    /\ ~In(EnabledServers(config[1], "cursor"), call[1].server_name)

\* C3: disable_server_for_client on a known client for which the server is
\* not enabled returns False, leaves the document and the file as they were,
\* and calls neither _save_config nor remove_server.
C3_DisableNotEnabledNoChange ==
    \A m \in Managers :
        ( /\ call[m].op = "disable_server_for_client"
          /\ ~Unknown(call[m])
          /\ ~In(EnabledServers(call[m].pre, call[m].client_name),
                 call[m].server_name) )
        => /\ call[m].ret = "False"
           /\ config[m] = call[m].pre
           /\ call[m].effects = <<>>
           /\ last = m => file = call[m].pre_file

\* C3 witness: disabling a server that is not enabled for a client that has
\* another server enabled.
C3_Witness ==
    /\ call[1].op = "disable_server_for_client"
    /\ call[1].client_name = "cursor"
    /\ call[1].ret = "False"
    /\ EnabledServers(config[1], "cursor") # <<>>

\* C4: set_active_client, enable_server_for_client and
\* disable_server_for_client called with a client name that is not a key of
\* clients return False, leave the document (active_client included) and the
\* file as they were, and call neither _save_config nor remove_server.
C4_UnknownClientRejected ==
    \A m \in Managers :
        ( /\ call[m].op \in {"set_active_client", "enable_server_for_client",
                             "disable_server_for_client"}
          /\ Unknown(call[m]) )
        => /\ call[m].ret = "False"
           /\ config[m] = call[m].pre
           /\ config[m].active_client = call[m].pre.active_client
           /\ call[m].effects = <<>>
           /\ last = m => file = call[m].pre_file

\* C4 witness: set_active_client with an unknown name, on a document that has
\* a registered and enabled server.
C4_Witness ==
    /\ call[1].op = "set_active_client"
    /\ call[1].client_name = "vscode"
    /\ call[1].ret = "False"
    /\ config[1].servers # EmptyDict
    /\ \E c \in DefaultClients : EnabledServers(config[1], c) # <<>>

\* C5: every client's enabled_servers holds each server name at most once.
C5_NoDuplicates ==
    \A m \in Managers : \A c \in DOMAIN config[m].clients :
        \A i, j \in 1..Len(EnabledServers(config[m], c)) :
            EnabledServers(config[m], c)[i] = EnabledServers(config[m], c)[j]
            => i = j

\* C5 witness: a server already enabled has been enabled again for a client
\* with two servers enabled.
C5_Witness ==
    /\ call[1].op = "enable_server_for_client"
    /\ call[1].client_name \in DefaultClients
    /\ call[1].effects = <<>>
    /\ Len(EnabledServers(config[1], call[1].client_name)) = 2

C7_FileEqualsMemory == FileHolds(config[1])

\* C7 amended: the document in the file equals the document in memory, unless
\* the file held invalid JSON at construction and nothing has been saved
\* since: then the file is still that text and memory is the default
\* document.
C7_FileEqualsMemoryOnceSaved ==
    \/ FileHolds(config[1])
    \/ /\ file = InvalidFile
       /\ writer = 0
       /\ config[1] = _default_config(env.installed, env.recommended)

\* C7 witness: the first save after a construction that found invalid JSON.
C7_Witness ==
    /\ call[1].pre_file = InvalidFile
    /\ In(call[1].effects, Saved)
    /\ config[1] # call[1].pre
    /\ FileHolds(config[1])

\* C8: constructing a ConfigManager on a file that holds invalid JSON does
\* not raise and leaves in memory the document a first run creates: version
\* set, no servers, the default clients with nothing enabled.
C8_InvalidJsonGivesDefault ==
    \A m \in Managers :
        (call[m].op = "__init__" /\ call[m].pre_file.kind = "invalid")
        => /\ call[m].ret = "None"
           /\ config[m] = _load_config(AbsentFile, env.installed,
                                       env.recommended).config
           /\ config[m].version = "0.1.0"
           /\ config[m].servers = EmptyDict
           /\ DOMAIN config[m].clients = DefaultClients
           /\ \A c \in DefaultClients : EnabledServers(config[m], c) = <<>>
           /\ config[m].active_client = env.recommended

\* C8 witness: a ConfigManager constructed on invalid JSON.
C8_Witness ==
    /\ calls > 0
    /\ call[1].op = "__init__"
    /\ call[1].pre_file = InvalidFile
    /\ file = InvalidFile

C10_LastWriterWins ==
    writer # 0 => file = JsonFile(json_dump(config[writer]))

\* C10 witness: manager q enabled a server and got True, manager p then set
\* the active client, and the file no longer has q's server.
C10_Witness ==
    \E p, q \in Managers :
        /\ p # q
        /\ calls = 2
        /\ last = p /\ writer = p
        /\ call[q].op = "enable_server_for_client"
        /\ call[q].ret = "True"
        /\ In(call[q].effects, Saved)
        /\ In(EnabledServers(config[q], call[q].client_name), call[q].server_name)
        /\ call[p].op = "set_active_client"
        /\ call[p].ret = "True"
        /\ FileHolds(config[p])
        /\ ~In(EnabledServers(json_load(file.text[1]), call[q].client_name),
               call[q].server_name)

====
